---- MODULE Spec2Model ----
(***************************************************************************)
(* A model of the Qiskit reference notebook (qiskit_reference.py): the     *)
(* circuits it builds, the transformations it applies to them and the      *)
(* operators, state vectors and probabilities it reads back.               *)
(*                                                                         *)
(* Amplitudes are exact.  Every gate the notebook uses (h, x, y, cx, ccx,  *)
(* cz, ccz, rz at multiples of pi/2) has entries in the ring               *)
(* Z[w, 1/2], w = exp(i*pi/4), so a scalar is a tuple <<a, b, c, d, k>>    *)
(* standing for (a + b*w + c*w^2 + d*w^3) / 2^k, kept in lowest terms.     *)
(***************************************************************************)
EXTENDS Integers, Sequences, FiniteSets, TLC

\* ------------------------------------------------------------------ bounds
MaxQubits == 3
MaxOps == 2
MaxGateOps == 1

\* ------------------------------------------------------- exact amplitudes
Pow2(e) == 2 ^ e

Even(x) == x % 2 = 0

RECURSIVE Reduce(_)
Reduce(z) ==
  IF z[1] = 0 /\ z[2] = 0 /\ z[3] = 0 /\ z[4] = 0 THEN <<0, 0, 0, 0, 0>>
  ELSE IF z[5] > 0 /\ Even(z[1]) /\ Even(z[2]) /\ Even(z[3]) /\ Even(z[4])
       THEN Reduce(<<z[1] \div 2, z[2] \div 2, z[3] \div 2, z[4] \div 2, z[5] - 1>>)
       ELSE z

Zero == <<0, 0, 0, 0, 0>>
One == <<1, 0, 0, 0, 0>>
InvSqrt2 == <<0, 1, 0, -1, 1>>

Neg(z) == <<-z[1], -z[2], -z[3], -z[4], z[5]>>

Add(y, z) ==
  LET k == IF y[5] > z[5] THEN y[5] ELSE z[5]
      p == Pow2(k - y[5])
      q == Pow2(k - z[5])
  IN  Reduce(<<p * y[1] + q * z[1], p * y[2] + q * z[2],
               p * y[3] + q * z[3], p * y[4] + q * z[4], k>>)

Mul(y, z) ==
  Reduce(<<y[1] * z[1] - y[2] * z[4] - y[3] * z[3] - y[4] * z[2],
           y[1] * z[2] + y[2] * z[1] - y[3] * z[4] - y[4] * z[3],
           y[1] * z[3] + y[2] * z[2] + y[3] * z[1] - y[4] * z[4],
           y[1] * z[4] + y[2] * z[3] + y[3] * z[2] + y[4] * z[1],
           y[5] + z[5]>>)

Conj(z) == <<z[1], -z[4], -z[3], -z[2], z[5]>>

AbsSq(z) == Mul(z, Conj(z))

\* z * w: w^4 = -1, so the coefficients rotate with one change of sign
TimesOmega(z) == <<-z[4], z[1], z[2], z[3], z[5]>>

\* z * exp(i * m * pi/4) for any integer m
RECURSIVE TimesOmegaPow(_, _)
TimesOmegaPow(z, m) ==
  IF m < 0 \/ m >= 8 THEN TimesOmegaPow(z, m % 8)
  ELSE IF m >= 4 THEN TimesOmegaPow(Neg(z), m - 4)
  ELSE IF m = 0 THEN z
  ELSE TimesOmegaPow(TimesOmega(z), m - 1)

\* z * i, i = w^2
TimesI(z) == <<-z[3], -z[4], z[1], z[2], z[5]>>

\* z / sqrt(2), 1/sqrt(2) = (w - w^3) / 2
TimesInvSqrt2(z) ==
  Reduce(<<z[2] - z[4], z[1] + z[3], z[2] + z[4], z[3] - z[1], z[5] + 1>>)

\* ------------------------------------------------------------- bit order
Dim(n) == Pow2(n)

\* Qubit q is bit q of a basis index.
Bit(k, q) == (k \div Pow2(q)) % 2

SetBit(k, q, b) == LET p == Pow2(q) IN k + (b - ((k \div p) % 2)) * p

FlipBit(k, q) == LET p == Pow2(q) IN k + (1 - 2 * ((k \div p) % 2)) * p

\* ------------------------------------------------------------- registers
\* A circuit's qubit list: QuantumCircuit(r1, r2, ...) adds the registers in
\* the order given, each register appending its slots to the list.  A slot is
\* <<register number, position in the register>>.
RegisterSlots(r, size) == [i \in 1..size |-> <<r, i - 1>>]

\* A faulty variant: the registers taken last-given first
RECURSIVE QubitsLastFirst(_, _)
QubitsLastFirst(regs, r) ==
  IF r = 0 THEN <<>>
  ELSE RegisterSlots(r, regs[r]) \o QubitsLastFirst(regs, r - 1)

RECURSIVE QubitsUpTo(_, _)
QubitsUpTo(regs, r) ==
  IF r = 0 THEN <<>>
  ELSE QubitsUpTo(regs, r - 1) \o RegisterSlots(r, regs[r])

Qubits(regs) == QubitsUpTo(regs, Len(regs))

NumQubits(regs) == Len(Qubits(regs))

\* find_bit: the index of a slot is its position in the circuit's qubit list.
QubitIndex(regs, slot) ==
  (CHOOSE p \in 1..Len(Qubits(regs)) : Qubits(regs)[p] = slot) - 1

IsSlot(regs, x) == \E p \in 1..Len(Qubits(regs)) : Qubits(regs)[p] = x

\* A qubit specifier is a register slot, <<"slot", r, i>> for register r's
\* position i, or an integer, <<"int", k>>.  An integer outside 0..n-1 and a
\* slot of no register of the circuit are refused (CircuitError).
SlotSpec(r, i) == <<"slot", r, i>>
IntSpec(k) == <<"int", k>>

\* A faulty variant: no range check on an integer index
ValidSpecifierUnchecked(regs, x) ==
  IF x[1] = "int" THEN TRUE ELSE IsSlot(regs, <<x[2], x[3]>>)

ValidSpecifier(regs, x) ==
  IF x[1] = "int" THEN 0 <= x[2] /\ x[2] < NumQubits(regs)
  ELSE IsSlot(regs, <<x[2], x[3]>>)

Resolve(regs, x) ==
  IF x[1] = "int" THEN x[2] ELSE QubitIndex(regs, <<x[2], x[3]>>)

\* ------------------------------------------------------------ operations
NoAngle == <<"none", 0>>
\* <<"num", m>> is the angle m * pi/2, <<"Theta", m>> is m times the unbound
\* parameter Theta.
HalfPi == <<"num", 1>>
Theta == <<"Theta", 1>>

Op(name, qubits) ==
  [name |-> name, qubits |-> qubits, angle |-> NoAngle, def |-> <<>>]

RzOp(angle, q) ==
  [name |-> "rz", qubits |-> <<q>>, angle |-> angle, def |-> <<>>]

GateOp(def, qubits) ==
  [name |-> "gate", qubits |-> qubits, angle |-> NoAngle, def |-> def]

\* ----------------------------------------------------- action of one gate
\* v is a coefficient vector: a function on 0..2^n-1.  Qubit q is bit q of
\* the basis index.
RECURSIVE Log2(_)
Log2(d) == IF d <= 1 THEN 0 ELSE 1 + Log2(d \div 2)

NumBits(v) == Log2(Cardinality(DOMAIN v))

\* A faulty variant: qubit q taken as the q-th bit from the most significant end
ApplyXBigEndian(v, q) ==
  [k \in DOMAIN v |-> v[FlipBit(k, NumBits(v) - 1 - q)]]

ApplyX(v, q) == [k \in DOMAIN v |-> v[FlipBit(k, q)]]

\* Y = [[0, -i], [i, 0]]
ApplyY(v, q) ==
  [k \in DOMAIN v |->
     IF Bit(k, q) = 1 THEN TimesI(v[FlipBit(k, q)])
     ELSE Neg(TimesI(v[FlipBit(k, q)]))]

\* A faulty variant: the Hadamard applied at the mirrored bit position
ApplyHBigEndian(v, q) ==
  LET b == NumBits(v) - 1 - q
  IN  [k \in DOMAIN v |->
         TimesInvSqrt2(IF Bit(k, b) = 1
                       THEN Add(v[SetBit(k, b, 0)], Neg(v[k]))
                       ELSE Add(v[k], v[SetBit(k, b, 1)]))]

ApplyH(v, q) ==
  [k \in DOMAIN v |->
     TimesInvSqrt2(IF Bit(k, q) = 1
                   THEN Add(v[SetBit(k, q, 0)], Neg(v[k]))
                   ELSE Add(v[k], v[SetBit(k, q, 1)]))]

\* RZ(lambda) = diag(exp(-i lambda/2), exp(i lambda/2)), lambda = m * pi/2
ApplyRz(v, m, q) ==
  [k \in DOMAIN v |->
     TimesOmegaPow(v[k], IF Bit(k, q) = 1 THEN m ELSE -m)]

AllSet(k, ctrls) == \A j \in 1..Len(ctrls) : Bit(k, ctrls[j]) = 1

\* cx and ccx: the last qubit is the target, the others are controls
ApplyCX(v, qs) ==
  LET t == qs[Len(qs)]
      ctrls == SubSeq(qs, 1, Len(qs) - 1)
  IN  [k \in DOMAIN v |-> IF AllSet(k, ctrls) THEN v[FlipBit(k, t)] ELSE v[k]]

\* cz and ccz: a sign on the basis states with every qubit set
ApplyCZ(v, qs) == [k \in DOMAIN v |-> IF AllSet(k, qs) THEN Neg(v[k]) ELSE v[k]]

Bound(angle) == angle[1] # "Theta"

RECURSIVE ApplyOps(_, _)
ApplyOp(v, op) ==
  CASE op.name = "x" -> ApplyX(v, op.qubits[1])
    [] op.name = "y" -> ApplyY(v, op.qubits[1])
    [] op.name = "h" -> ApplyH(v, op.qubits[1])
    [] op.name = "rz" -> ApplyRz(v, op.angle[2], op.qubits[1])
    [] op.name \in {"cx", "ccx"} -> ApplyCX(v, op.qubits)
    [] op.name \in {"cz", "ccz"} -> ApplyCZ(v, op.qubits)
    [] op.name = "barrier" -> v
    [] op.name = "gate" ->
         ApplyOps(v, [j \in 1..Len(op.def) |->
                        [op.def[j] EXCEPT !.qubits =
                           [i \in 1..Len(op.def[j].qubits) |->
                              op.qubits[op.def[j].qubits[i] + 1]]]])

ApplyOps(v, ops) ==
  IF ops = <<>> THEN v
  ELSE ApplyOps(ApplyOp(v, Head(ops)), Tail(ops))

\* ------------------------------------------------ vectors and operators
BasisVector(k, dims) == [j \in 0..(dims - 1) |-> IF j = k THEN One ELSE Zero]

\* Statevector(circuit): the image of |00...0>
StatevectorOf(n, ops) == ApplyOps(BasisVector(0, Dim(n)), ops)

\* Operator(circuit).data: entry [row][col], column col the image of basis
\* state col
OperatorOf(n, ops) ==
  LET cols == [c \in 0..(Dim(n) - 1) |-> ApplyOps(BasisVector(c, Dim(n)), ops)]
  IN  [r \in 0..(Dim(n) - 1) |-> [c \in 0..(Dim(n) - 1) |-> cols[c][r]]]

\* A faulty variant: the coefficient squared, not its magnitude
ProbabilitiesOfSquares(v) == [k \in DOMAIN v |-> Mul(v[k], v[k])]

\* psi.probabilities()
Probabilities(v) == [k \in DOMAIN v |-> AbsSq(v[k])]

RECURSIVE SumUpTo(_, _)
SumUpTo(p, k) == IF k < 0 THEN Zero ELSE Add(p[k], SumUpTo(p, k - 1))

\* The printed label of basis index k on n qubits: its n binary digits, most
\* significant first.
RECURSIVE LabelOf(_, _)
LabelOf(k, n) ==
  IF n = 0 THEN <<>>
  ELSE Append(LabelOf(k \div 2, n - 1), IF k % 2 = 1 THEN "1" ELSE "0")

\* psi.probabilities_dict(): the non-zero probabilities keyed by label
ProbabilitiesDict(v, n) ==
  LET p == Probabilities(v)
      keys == {LabelOf(k, n) : k \in {j \in DOMAIN v : p[j] # Zero}}
  IN  [s \in keys |-> p[CHOOSE k \in DOMAIN v : LabelOf(k, n) = s]]

\* --------------------------------------------------- vectors from labels
\* The one-qubit states a label character names.
CharState(ch) ==
  CASE ch = "0" -> <<One, Zero>>
    [] ch = "1" -> <<Zero, One>>
    [] ch = "+" -> <<InvSqrt2, InvSqrt2>>
    [] ch = "-" -> <<InvSqrt2, Neg(InvSqrt2)>>

\* The Kronecker product of two vectors indexed from 0: the left factor is
\* the more significant.
\* A faulty variant: the left factor taken as the less significant
KronVecRightMajor(u, v, dimU, dimV) ==
  [k \in 0..(dimU * dimV - 1) |-> Mul(u[k % dimU], v[k \div dimU])]

KronVec(u, v, dimU, dimV) ==
  [k \in 0..(dimU * dimV - 1) |-> Mul(u[k \div dimV], v[k % dimV])]

FromZero(t) == [k \in 0..(Len(t) - 1) |-> t[k + 1]]

\* Statevector.from_label(s): "+1-" is |+> (x) |1> (x) |->, the factors in
\* the order of the characters.
RECURSIVE FromLabel(_)
FromLabel(s) ==
  IF Len(s) = 1 THEN FromZero(CharState(s[1]))
  ELSE KronVec(FromZero(CharState(s[1])), FromLabel(Tail(s)),
               2, Dim(Len(s) - 1))

\* Statevector.from_int(k, dims)
FromInt(k, dims) == BasisVector(k, dims)

\* ------------------------------------------------------------------ state
VARIABLES
  regs,      \* register sizes of the circuit, in the order they were given
  quantum_circuit,   \* the circuit's operations, in order
  result,    \* what the last transformation returned
  gate,      \* gate = <circuit>.to_gate(...)
  regs2,     \* registers of the circuit the gate is composed into
  quantum_circuit2,  \* that circuit's operations
  out,       \* the value last read back (an operator, a state, probabilities)
  last,      \* the last method call: its name, arguments and operand
  pc         \* the notebook section reached

vars == <<regs, quantum_circuit, result, gate, regs2, quantum_circuit2, out, last, pc>>

None == [kind |-> "none"]

\* A call's record: the method, its arguments, whether it returned (ok) or
\* raised, whether inplace=True was passed, and the operand circuit's
\* operations before and after the call.
NoCall == [call |-> "none", args |-> <<>>, ok |-> TRUE, inplace |-> FALSE,
           before |-> <<>>, after |-> <<>>]

Call(name, args, ok, inplace, before, after) ==
  [call |-> name, args |-> args, ok |-> ok, inplace |-> inplace,
   before |-> before, after |-> after]

RECURSIVE SumSeq(_)
SumSeq(s) == IF s = <<>> THEN 0 ELSE Head(s) + SumSeq(Tail(s))

\* Every way to split at most MaxQubits qubits into registers.
Layouts ==
  {s \in UNION {[1..len -> 1..MaxQubits] : len \in 1..MaxQubits} :
     SumSeq(s) <= MaxQubits}

InitOrder ==
  /\ regs \in Layouts
  /\ quantum_circuit = <<>>
  /\ result = None
  /\ gate = None
  /\ regs2 = <<>>
  /\ quantum_circuit2 = <<>>
  /\ out = None
  /\ last = NoCall
  /\ pc = "build"

\* ------------------------------------------------------- gate method calls
\* circuit.<name>(q...): the specifiers are resolved to indices and the
\* operation is appended to the circuit itself.  A refused specifier, or the
\* same qubit given twice, raises and leaves the circuit as it was.
Distinct(qs) == \A i, j \in 1..Len(qs) : i # j => qs[i] # qs[j]

AppendCall(rs, ops, name, angle, specs) ==
  LET qs == [i \in 1..Len(specs) |-> Resolve(rs, specs[i])]
  IN  IF (\A i \in 1..Len(specs) : ValidSpecifier(rs, specs[i])) /\ Distinct(qs)
      THEN [ok |-> TRUE,
            ops |-> Append(ops, [name |-> name, qubits |-> qs,
                                 angle |-> angle, def |-> <<>>])]
      ELSE [ok |-> FALSE, ops |-> ops]

SingleQubitGates == {"x", "y", "h", "rz"}

AngleOf(name, angle) == IF name = "rz" THEN angle ELSE NoAngle

\* The index the notebook's comment gives for the ancilla qubit.
CommentIndex == 12

Specifiers(rs) ==
  {SlotSpec(q[1], q[2]) : q \in {Qubits(rs)[p] : p \in 1..Len(Qubits(rs))}}
    \cup {IntSpec(k) : k \in 0..(NumQubits(rs) - 1)}
    \cup {IntSpec(CommentIndex)}

Arity(name) ==
  CASE name \in SingleQubitGates -> 1
    [] name \in {"cx", "cz"} -> 2
    [] name \in {"ccx", "ccz"} -> 3

\* One gate method called on a new circuit, as two_qubit_x.x(0): the circuit
\* then applies that gate and nothing else.
OneGate(name, specs) ==
  /\ pc = "build"
  /\ quantum_circuit = <<>>
  /\ last = NoCall
  /\ LET r == AppendCall(regs, quantum_circuit, name, AngleOf(name, HalfPi), specs)
     IN  /\ quantum_circuit' = r.ops
         /\ last' = Call(name, specs, r.ok, FALSE, quantum_circuit, r.ops)
  /\ UNCHANGED <<regs, result, gate, regs2, quantum_circuit2, out, pc>>

HasUnbound(ops) == \E j \in 1..Len(ops) : ~Bound(ops[j].angle)

\* Operator(circuit).data
ReadOperator ==
  /\ pc = "build"
  /\ ~HasUnbound(quantum_circuit)
  /\ out' = [kind |-> "Operator",
             data |-> OperatorOf(NumQubits(regs), quantum_circuit)]
  /\ pc' = "read"
  /\ UNCHANGED <<regs, quantum_circuit, result, gate, regs2, quantum_circuit2, last>>

\* psi = Statevector(circuit)
ReadStatevector ==
  /\ pc = "build"
  /\ ~HasUnbound(quantum_circuit)
  /\ out' = [kind |-> "Statevector",
             data |-> StatevectorOf(NumQubits(regs), quantum_circuit)]
  /\ pc' = "read"
  /\ UNCHANGED <<regs, quantum_circuit, result, gate, regs2, quantum_circuit2, last>>

LabelChars == {"0", "1", "+", "-"}

\* Statevector.from_label(s), for a label as long as the register
ReadFromLabel(s) ==
  /\ pc = "build"
  /\ quantum_circuit = <<>>
  /\ last = NoCall
  /\ out' = [kind |-> "from_label", label |-> s, data |-> FromLabel(s)]
  /\ pc' = "read"
  /\ UNCHANGED <<regs, quantum_circuit, result, gate, regs2, quantum_circuit2, last>>

\* Statevector.from_int(k, dims)
ReadFromInt(k, dims) ==
  /\ pc = "build"
  /\ quantum_circuit = <<>>
  /\ last = NoCall
  /\ out' = [kind |-> "from_int", k |-> k, dims |-> dims,
             data |-> FromInt(k, dims)]
  /\ pc' = "read"
  /\ UNCHANGED <<regs, quantum_circuit, result, gate, regs2, quantum_circuit2, last>>

NextOrder ==
  \/ \E name \in SingleQubitGates \cup {"cx", "ccx"} :
       \E specs \in [1..Arity(name) -> Specifiers(regs)] : OneGate(name, specs)
  \/ ReadOperator
  \/ ReadStatevector
  \/ \E s \in [1..NumQubits(regs) -> LabelChars] : ReadFromLabel(s)
  \/ \E m \in 1..MaxQubits : \E k \in 0..(Dim(m) - 1) : ReadFromInt(k, Dim(m))

SpecOrder == InitOrder /\ [][NextOrder]_vars

\* ------------------------------------------------ claims on the bit order
NonZeroLabels(v, n) == {LabelOf(k, n) : k \in {j \in DOMAIN v : v[j] # Zero}}

FlippedQubit0 ==
  /\ regs = <<2>>
  /\ quantum_circuit = <<Op("x", <<0>>)>>
  /\ out.kind = "Statevector"

\* C1: on a 2-qubit circuit started in the all-zero state, a single X on
\* qubit 0 gives the one basis state printed "01" (basis index 1), not "10"
\* (index 2).
C1_FlipQubit0Prints01 ==
  FlippedQubit0 =>
    /\ out.data = FromInt(1, 4)
    /\ NonZeroLabels(out.data, 2) = {<<"0", "1">>}
    /\ out.data # FromInt(2, 4)

C1_Witness == FlippedQubit0 /\ last.ok

Identity2 == [r \in 0..1 |-> [c \in 0..1 |-> IF r = c THEN One ELSE Zero]]

\* The Kronecker product of two square matrices indexed from 0.
KronMat(A, B, dimA, dimB) ==
  [r \in 0..(dimA * dimB - 1) |->
     [c \in 0..(dimA * dimB - 1) |->
        Mul(A[r \div dimB][c \div dimB], B[r % dimB][c % dimB])]]

\* The factor of qubit j, for j down to 0: qubit j leftmost, qubit 0 rightmost.
RECURSIVE KronFactors(_, _, _)
KronFactors(G, q, j) ==
  LET F == IF j = q THEN G ELSE Identity2
  IN  IF j = 0 THEN F ELSE KronMat(F, KronFactors(G, q, j - 1), 2, Dim(j))

\* The 2 x 2 matrix of a single-qubit gate: the operator of the one-qubit
\* circuit that applies it.
GateMatrix(op) == OperatorOf(1, <<[op EXCEPT !.qubits = <<0>>]>>)

OneGateOperator ==
  /\ out.kind = "Operator"
  /\ Len(quantum_circuit) = 1
  /\ quantum_circuit[1].name \in SingleQubitGates

\* C2: the operator of the circuit that applies gate G to qubit q only is the
\* Kronecker product of N factors, qubit N-1 leftmost and qubit 0 rightmost,
\* with G at qubit q and the identity elsewhere; for N = 2 and q = 0 it is
\* I (x) G and not G (x) I.
C2_EmbeddingIsKronecker ==
  OneGateOperator =>
    LET n == NumQubits(regs)
        G == GateMatrix(quantum_circuit[1])
        q == quantum_circuit[1].qubits[1]
    IN  /\ out.data = KronFactors(G, q, n - 1)
        /\ (n = 2 /\ q = 0) =>
             /\ out.data = KronMat(Identity2, G, 2, 2)
             /\ out.data # KronMat(G, Identity2, 2, 2)

C2_Witness ==
  /\ OneGateOperator
  /\ NumQubits(regs) = 3
  /\ quantum_circuit[1].name = "h"
  /\ quantum_circuit[1].qubits = <<1>>

RECURSIVE BinaryValue(_)
BinaryValue(s) ==
  IF s = <<>> THEN 0
  ELSE 2 * BinaryValue(SubSeq(s, 1, Len(s) - 1))
         + (IF s[Len(s)] = "1" THEN 1 ELSE 0)

BinaryLabel ==
  /\ out.kind = "from_label"
  /\ \A i \in 1..Len(out.label) : out.label[i] \in {"0", "1"}

\* C3: for a label s of N characters 0 and 1, from_label(s) is the basis
\* vector at the index s denotes as a binary numeral, the leftmost character
\* being qubit N-1 and the rightmost qubit 0; from_label("011") is
\* from_int(3, dims=8).
C3_FromLabelIsBinaryIndex ==
  BinaryLabel =>
    LET s == out.label
        n == Len(s)
        k == BinaryValue(s)
    IN  /\ out.data = FromInt(k, Dim(n))
        /\ \A q \in 0..(n - 1) : (Bit(k, q) = 1) <=> (s[n - q] = "1")
        /\ s = <<"0", "1", "1">> => out.data = FromInt(3, 8)

C3_Witness == BinaryLabel /\ out.label = <<"0", "1", "1">>

\* --------------------------------------------- claims on qubit indices
\* The number of qubits in the registers given before register r.
RECURSIVE Offset(_, _)
Offset(rs, r) == IF r = 1 THEN 0 ELSE Offset(rs, r - 1) + rs[r - 1]

ExpectedIndex(rs, x) == IF x[1] = "int" THEN x[2] ELSE Offset(rs, x[2]) + x[3]

CalledBySlot ==
  /\ last.call # "none"
  /\ last.ok
  /\ \E i \in 1..Len(last.args) : last.args[i][1] = "slot"

\* C7: qubit indices follow register insertion order: the first register
\* given holds indices 0..size-1 and each later register the next ones; on
\* QuantumCircuit(x of size 2, a of size 1), h(x[0]), cx(x[0], x[1]) and
\* ccx(x[0], x[1], a[0]) are the operations h(0), cx(0, 1), ccx(0, 1, 2).
C7_IndicesFollowInsertionOrder ==
  /\ (last.call # "none" /\ last.ok) =>
       /\ Len(quantum_circuit) = 1
       /\ quantum_circuit[1].name = last.call
       /\ quantum_circuit[1].qubits =
            [i \in 1..Len(last.args) |-> ExpectedIndex(regs, last.args[i])]
  /\ regs = <<2, 1>> =>
       /\ last.args = <<SlotSpec(1, 0)>> => quantum_circuit[1].qubits = <<0>>
       /\ last.args = <<SlotSpec(1, 0), SlotSpec(1, 1)>> =>
            quantum_circuit[1].qubits = <<0, 1>>
       /\ last.args = <<SlotSpec(1, 0), SlotSpec(1, 1), SlotSpec(2, 0)>> =>
            quantum_circuit[1].qubits = <<0, 1, 2>>

C7_Witness ==
  /\ CalledBySlot
  /\ regs = <<2, 1>>
  /\ last.call = "ccx"
  /\ last.args = <<SlotSpec(1, 0), SlotSpec(1, 1), SlotSpec(2, 0)>>

YOnAncilla(spec) ==
  /\ regs = <<2, 1>>
  /\ last.call = "y"
  /\ last.args = <<spec>>

CircuitObject(n, ops) == [kind |-> "circuit", n |-> n, ops |-> ops]

\* A faulty variant: the wires rotated by one instead of mirrored
ReverseBitsRotated(n, ops) ==
  [j \in 1..Len(ops) |->
     [ops[j] EXCEPT !.qubits =
        [i \in 1..Len(ops[j].qubits) |-> (ops[j].qubits[i] + 1) % n]]]

\* A faulty variant: the operations kept on their wires
ReverseBitsUnmoved(n, ops) == ops

\* circuit.reverse_bits(): the same operations, in the same order, each on
\* the mirrored wires
ReverseBitsOf(n, ops) ==
  [j \in 1..Len(ops) |->
     [ops[j] EXCEPT !.qubits =
        [i \in 1..Len(ops[j].qubits) |-> n - 1 - ops[j].qubits[i]]]]

\* circuit.inverse(): the inverse operations in the opposite order.  The
\* gates used are their own inverses, but rz, whose angle changes sign.
RECURSIVE InverseOps(_)
InverseOps(ops) ==
  [j \in 1..Len(ops) |->
     LET op == ops[Len(ops) + 1 - j]
     IN  [op EXCEPT !.angle = IF op.name = "rz" THEN <<@[1], -@[2]>> ELSE @,
                    !.def = InverseOps(@)]]

\* circuit.assign_parameters({Theta: value}), value in units of pi/2
RECURSIVE AssignOps(_, _)
AssignOps(ops, value) ==
  [j \in 1..Len(ops) |->
     [ops[j] EXCEPT !.angle = IF @[1] = "Theta" THEN <<"num", @[2] * value>>
                              ELSE @,
                    !.def = AssignOps(@, value)]]

RECURSIVE HasParameter(_)
HasParameter(ops) ==
  \E j \in 1..Len(ops) : ~Bound(ops[j].angle) \/ HasParameter(ops[j].def)

\* What a call leaves of its operand and what it returns.
\* A faulty variant: inverse() done on the circuit itself
InverseCallInPlace(n, ops) ==
  [ok |-> TRUE, operand |-> InverseOps(ops),
   returned |-> CircuitObject(n, InverseOps(ops))]

InverseCall(n, ops) ==
  [ok |-> TRUE, operand |-> ops, returned |-> CircuitObject(n, InverseOps(ops))]

ReverseBitsCall(n, ops) ==
  [ok |-> TRUE, operand |-> ops,
   returned |-> CircuitObject(n, ReverseBitsOf(n, ops))]

\* Binding a parameter the circuit does not hold raises.
AssignParametersCall(n, ops, value) ==
  IF HasParameter(ops)
  THEN [ok |-> TRUE, operand |-> ops,
        returned |-> CircuitObject(n, AssignOps(ops, value))]
  ELSE [ok |-> FALSE, operand |-> ops, returned |-> None]

ToGateCall(n, ops) ==
  [ok |-> TRUE, operand |-> ops,
   returned |-> [kind |-> "gate", n |-> n, def |-> ops]]

\* A faulty variant: the qubit list ignored: the gate put on the first qubits
ComposeCallOnFirstQubits(rs, ops, g, specs, inplace) ==
  LET qs == [i \in 1..g.n |-> i - 1]
      appended == Append(ops, GateOp(g.def, qs))
  IN  IF inplace
      THEN [ok |-> TRUE, operand |-> appended, returned |-> None]
      ELSE [ok |-> TRUE, operand |-> ops,
            returned |-> CircuitObject(NumQubits(rs), appended)]

\* circuit.compose(gate, qubits, inplace): the gate is appended on the listed
\* qubits, to the circuit itself when inplace=True (returning None) and to a
\* copy otherwise.  A list of the wrong length, a refused specifier or a
\* repeated qubit raises.
ComposeCall(rs, ops, g, specs, inplace) ==
  LET qs == [i \in 1..Len(specs) |-> Resolve(rs, specs[i])]
      valid == /\ Len(specs) = g.n
               /\ \A i \in 1..Len(specs) : ValidSpecifier(rs, specs[i])
               /\ Distinct(qs)
      appended == Append(ops, GateOp(g.def, qs))
  IN  IF ~valid THEN [ok |-> FALSE, operand |-> ops, returned |-> None]
      ELSE IF inplace
      THEN [ok |-> TRUE, operand |-> appended, returned |-> None]
      ELSE [ok |-> TRUE, operand |-> ops,
            returned |-> CircuitObject(NumQubits(rs), appended)]

\* ----------------------------------------------------- building circuits
\* The circuits the notebook builds gates on: QuantumCircuit(2) and
\* QuantumCircuit(x of size 2, a of size 1).
NotebookLayouts == {<<2>>, <<2, 1>>}

InitCircuit ==
  /\ regs \in NotebookLayouts
  /\ quantum_circuit = <<>>
  /\ result = None
  /\ gate = None
  /\ regs2 = <<>>
  /\ quantum_circuit2 = <<>>
  /\ out = None
  /\ last = NoCall
  /\ pc = "build"

Injective(n, len) == {t \in [1..len -> 0..(n - 1)] : Distinct(t)}

\* The qubit arguments a gate method is tried with: every choice of distinct
\* indices, the controls of ccx in increasing order.
GateArguments(name, n) ==
  CASE name \in SingleQubitGates \cup {"cx"} -> Injective(n, Arity(name))
    [] name = "ccx" -> {t \in Injective(n, 3) : t[1] < t[2]}

IntSpecs(t) == [i \in 1..Len(t) |-> IntSpec(t[i])]

\* circuit.<name>(q...), with rz taking the parameter Theta
AppendGate(name, t) ==
  /\ pc = "build"
  /\ Len(quantum_circuit) < MaxOps
  /\ LET r == AppendCall(regs, quantum_circuit, name, AngleOf(name, Theta),
                         IntSpecs(t))
     IN  /\ quantum_circuit' = r.ops
         /\ last' = Call(name, IntSpecs(t), r.ok, FALSE, quantum_circuit, r.ops)
  /\ UNCHANGED <<regs, result, gate, regs2, quantum_circuit2, out, pc>>

\* The four gates of the notebook's first circuit, in order.
NotebookGates(rs, ops) ==
  LET c1 == AppendCall(rs, ops, "h", NoAngle, <<SlotSpec(1, 0)>>).ops
      c2 == AppendCall(rs, c1, "cx", NoAngle,
                       <<SlotSpec(1, 0), SlotSpec(1, 1)>>).ops
      c3 == AppendCall(rs, c2, "ccx", NoAngle,
                       <<SlotSpec(1, 0), SlotSpec(1, 1), SlotSpec(2, 0)>>).ops
  IN  <<c3, AppendCall(rs, c3, "y", NoAngle, <<SlotSpec(2, 0)>>).ops>>

CellAddGates ==
  /\ pc = "build"
  /\ regs = <<2, 1>>
  /\ quantum_circuit = <<>>
  /\ LET c == NotebookGates(regs, quantum_circuit)
     IN  /\ quantum_circuit' = c[2]
         /\ last' = Call("y", <<SlotSpec(2, 0)>>, TRUE, FALSE, c[1], c[2])
  /\ UNCHANGED <<regs, result, gate, regs2, quantum_circuit2, out, pc>>

\* quantum_circuit.rz(Theta, quantum_register[1]), on the four gates
CellAddRz ==
  /\ pc = "build"
  /\ regs = <<2, 1>>
  /\ quantum_circuit = NotebookGates(regs, <<>>)[2]
  /\ LET r == AppendCall(regs, quantum_circuit, "rz", Theta, <<SlotSpec(1, 1)>>)
     IN  /\ quantum_circuit' = r.ops
         /\ last' = Call("rz", <<SlotSpec(1, 1)>>, r.ok, FALSE, quantum_circuit, r.ops)
  /\ UNCHANGED <<regs, result, gate, regs2, quantum_circuit2, out, pc>>

\* ---------------------------------------------------- calling the methods
\* two_qubit_x = two_qubit_x.reverse_bits()
CallReverseBits ==
  /\ pc = "build"
  /\ LET r == ReverseBitsCall(NumQubits(regs), quantum_circuit)
     IN  /\ quantum_circuit' = r.operand
         /\ result' = r.returned
         /\ last' = Call("reverse_bits", <<>>, r.ok, FALSE, quantum_circuit, r.operand)
  /\ pc' = "reversed"
  /\ UNCHANGED <<regs, gate, regs2, quantum_circuit2, out>>

\* reverse_bits() of the circuit reverse_bits() returned
CallReverseBitsAgain ==
  /\ pc = "reversed"
  /\ LET r == ReverseBitsCall(result.n, result.ops)
     IN  /\ result' = r.returned
         /\ last' = Call("reverse_bits", <<"again">>, r.ok, FALSE,
                         result.ops, r.operand)
  /\ pc' = "reversed twice"
  /\ UNCHANGED <<regs, quantum_circuit, gate, regs2, quantum_circuit2, out>>

\* inverse_quantum_circuit = quantum_circuit.inverse()
CallInverse ==
  /\ pc = "build"
  /\ LET r == InverseCall(NumQubits(regs), quantum_circuit)
     IN  /\ quantum_circuit' = r.operand
         /\ result' = r.returned
         /\ last' = Call("inverse", <<>>, r.ok, FALSE, quantum_circuit, r.operand)
  /\ pc' = "called"
  /\ UNCHANGED <<regs, gate, regs2, quantum_circuit2, out>>

\* new_qc = quantum_circuit.assign_parameters({Theta: np.pi/2})
CallAssignParameters ==
  /\ pc = "build"
  /\ LET r == AssignParametersCall(NumQubits(regs), quantum_circuit, HalfPi[2])
     IN  /\ quantum_circuit' = r.operand
         /\ result' = r.returned
         /\ last' = Call("assign_parameters", <<HalfPi>>, r.ok, FALSE,
                         quantum_circuit, r.operand)
  /\ pc' = "called"
  /\ UNCHANGED <<regs, gate, regs2, quantum_circuit2, out>>

\* The circuits made into gates: the short ones and the notebook's, with or
\* without its rz.
GateSource(rs, ops) ==
  \/ Len(ops) <= MaxGateOps
  \/ rs = <<2, 1>> /\ ops = NotebookGates(rs, <<>>)[2]
  \/ rs = <<2, 1>> /\ SubSeq(ops, 1, Len(ops) - 1) = NotebookGates(rs, <<>>)[2]

\* gate = quantum_circuit.to_gate(label="qc1")
CallToGate ==
  /\ pc = "build"
  /\ GateSource(regs, quantum_circuit)
  /\ LET r == ToGateCall(NumQubits(regs), quantum_circuit)
     IN  /\ quantum_circuit' = r.operand
         /\ gate' = r.returned
         /\ last' = Call("to_gate", <<>>, r.ok, FALSE, quantum_circuit, r.operand)
  /\ pc' = "gate"
  /\ UNCHANGED <<regs, result, regs2, quantum_circuit2, out>>

\* A second, empty circuit wide enough for the gate, on one of the small
\* layouts.
NewCircuit2(layout) ==
  /\ pc = "gate"
  /\ NumQubits(layout) >= gate.n
  /\ regs2' = layout
  /\ quantum_circuit2' = <<>>
  /\ pc' = "circuit2"
  /\ UNCHANGED <<regs, quantum_circuit, result, gate, out, last>>

\* quantum_circuit2 on registers x (size 3) and a (size 2), with its x and cz
CellCircuit2 ==
  /\ pc = "gate"
  /\ regs2' = <<3, 2>>
  /\ LET c1 == AppendCall(<<3, 2>>, <<>>, "x", NoAngle, <<SlotSpec(1, 1)>>).ops
         r == AppendCall(<<3, 2>>, c1, "cz", NoAngle,
                         <<SlotSpec(1, 0), SlotSpec(2, 0)>>)
     IN  /\ quantum_circuit2' = r.ops
         /\ last' = Call("cz", <<SlotSpec(1, 0), SlotSpec(2, 0)>>, r.ok, FALSE,
                         c1, r.ops)
  /\ pc' = "circuit2"
  /\ UNCHANGED <<regs, quantum_circuit, result, gate, out>>

\* The qubit lists compose is tried with: every list of distinct indices on
\* a small circuit, the notebook's list on quantum_circuit2.
ComposeArguments ==
  IF gate = None THEN {}
  ELSE IF regs2 = <<3, 2>>
  THEN {<<SlotSpec(1, 1), SlotSpec(1, 2), SlotSpec(2, 0)>>}
  ELSE {IntSpecs(t) : t \in Injective(NumQubits(regs2), gate.n)}

\* quantum_circuit2.compose(gate, [...], inplace=...)
CallCompose(specs, inplace) ==
  /\ pc = "circuit2"
  /\ LET r == ComposeCall(regs2, quantum_circuit2, gate, specs, inplace)
     IN  /\ quantum_circuit2' = r.operand
         /\ result' = r.returned
         /\ last' = Call("compose", specs, r.ok, inplace, quantum_circuit2, r.operand)
  /\ pc' = "composed"
  /\ UNCHANGED <<regs, quantum_circuit, gate, regs2, out>>

AllQubits(rs) == [i \in 1..NumQubits(rs) |-> i - 1]

\* barrier(), h(quantum_register), barrier(), ccz(x[1], a[0], a[1])
CellBarriers ==
  /\ pc = "composed"
  /\ last.ok
  /\ regs2 = <<3, 2>>
  /\ LET b == Op("barrier", AllQubits(regs2))
         c1 == Append(quantum_circuit2, b)
         c2 == AppendCall(regs2, c1, "h", NoAngle, <<SlotSpec(1, 0)>>).ops
         c3 == AppendCall(regs2, c2, "h", NoAngle, <<SlotSpec(1, 1)>>).ops
         c4 == AppendCall(regs2, c3, "h", NoAngle, <<SlotSpec(1, 2)>>).ops
         c5 == Append(c4, b)
         r == AppendCall(regs2, c5, "ccz", NoAngle,
                         <<SlotSpec(1, 1), SlotSpec(2, 0), SlotSpec(2, 1)>>)
     IN  /\ quantum_circuit2' = r.ops
         /\ last' = Call("ccz", <<SlotSpec(1, 1), SlotSpec(2, 0), SlotSpec(2, 1)>>,
                         r.ok, FALSE, c5, r.ops)
  /\ pc' = "done"
  /\ UNCHANGED <<regs, quantum_circuit, result, gate, regs2, out>>

\* psi.probabilities()
ReadProbabilities ==
  /\ pc = "read"
  /\ out.kind = "Statevector"
  /\ out' = [kind |-> "probabilities", psi |-> out.data,
             data |-> Probabilities(out.data)]
  /\ pc' = "probabilities"
  /\ UNCHANGED <<regs, quantum_circuit, result, gate, regs2, quantum_circuit2, last>>

\* psi.probabilities_dict()
ReadProbabilitiesDict ==
  /\ pc = "read"
  /\ out.kind = "Statevector"
  /\ out' = [kind |-> "probabilities_dict", psi |-> out.data,
             data |-> ProbabilitiesDict(out.data, NumQubits(regs))]
  /\ pc' = "probabilities"
  /\ UNCHANGED <<regs, quantum_circuit, result, gate, regs2, quantum_circuit2, last>>

\* The "Order" section: circuits and their reverse_bits().
NextReverse ==
  \/ \E name \in SingleQubitGates \cup {"cx", "ccx"} :
       \E t \in GateArguments(name, NumQubits(regs)) : AppendGate(name, t)
  \/ CellAddGates
  \/ CallReverseBits
  \/ CallReverseBitsAgain

SpecReverse == InitCircuit /\ [][NextReverse]_vars

\* The "Parameters" and "Gates" sections, with inverse() and reverse_bits():
\* the methods that take a circuit and return another.
NextGates ==
  \/ \E name \in SingleQubitGates \cup {"cx", "ccx"} :
       \E t \in GateArguments(name, NumQubits(regs)) : AppendGate(name, t)
  \/ CellAddGates
  \/ CellAddRz
  \/ CallReverseBits
  \/ CallInverse
  \/ CallAssignParameters
  \/ CallToGate
  \/ \E layout \in NotebookLayouts : NewCircuit2(layout)
  \/ CellCircuit2
  \/ \E specs \in ComposeArguments, inplace \in BOOLEAN :
       CallCompose(specs, inplace)
  \/ CellBarriers

SpecGates == InitCircuit /\ [][NextGates]_vars

\* The "States" section: the state a circuit gives and its probabilities.
NextStates ==
  \/ \E name \in SingleQubitGates \cup {"cx", "ccx"} :
       \E t \in GateArguments(name, NumQubits(regs)) : AppendGate(name, t)
  \/ CellAddGates
  \/ ReadStatevector
  \/ ReadProbabilities
  \/ ReadProbabilitiesDict

SpecStates == InitCircuit /\ [][NextStates]_vars

\* ------------------------------------------- claims on the transformations
\* The operations with Theta bound to pi/2, the notebook's value: operators
\* are compared under this binding.
AtHalfPi(ops) == AssignOps(ops, HalfPi[2])

\* C4: for any circuit c, c.reverse_bits().reverse_bits() has the operator
\* matrix of c.
C4_ReverseBitsTwiceSameOperator ==
  pc = "reversed twice" =>
    OperatorOf(result.n, AtHalfPi(result.ops))
      = OperatorOf(NumQubits(regs), AtHalfPi(quantum_circuit))

C4_Witness ==
  /\ pc = "reversed twice"
  /\ NumQubits(regs) = 3
  /\ Len(quantum_circuit) = MaxOps
  /\ quantum_circuit[1].name = "cx"
  /\ quantum_circuit[2].name = "h"

\* The basis index with its n bits in the opposite order.
RECURSIVE Mirror(_, _)
Mirror(k, n) ==
  IF n = 0 THEN 0 ELSE (k % 2) * Pow2(n - 1) + Mirror(k \div 2, n - 1)

\* C5: reverse_bits returns a new circuit whose operations are those of the
\* operand in the same order, each acting on qubit N-1-i where it acted on
\* qubit i; the basis-label convention is unchanged, so the operator is that
\* of the operand with the bits of the row and column indices mirrored, and
\* the reversed 2-qubit circuit with X on qubit 0 sends the all-zero state to
\* the state printed "10" (index 2).
C5_ReverseBitsRelabels ==
  pc = "reversed" =>
    LET n == NumQubits(regs)
        U == OperatorOf(n, AtHalfPi(quantum_circuit))
        V == OperatorOf(n, AtHalfPi(result.ops))
    IN  /\ quantum_circuit = last.before
        /\ result.n = n
        /\ Len(result.ops) = Len(quantum_circuit)
        /\ \A j \in 1..Len(quantum_circuit) :
             /\ result.ops[j].name = quantum_circuit[j].name
             /\ result.ops[j].angle = quantum_circuit[j].angle
             /\ Len(result.ops[j].qubits) = Len(quantum_circuit[j].qubits)
             /\ \A i \in 1..Len(quantum_circuit[j].qubits) :
                  result.ops[j].qubits[i] = n - 1 - quantum_circuit[j].qubits[i]
        /\ V = [r \in 0..(Dim(n) - 1) |->
                  [c \in 0..(Dim(n) - 1) |-> U[Mirror(r, n)][Mirror(c, n)]]]
        /\ (regs = <<2>> /\ quantum_circuit = <<Op("x", <<0>>)>>) =>
             /\ StatevectorOf(2, result.ops) = FromInt(2, 4)
             /\ NonZeroLabels(StatevectorOf(2, result.ops), 2) = {<<"1", "0">>}

C5_Witness ==
  /\ pc = "reversed"
  /\ regs = <<2>>
  /\ quantum_circuit = <<Op("x", <<0>>)>>

Composed == pc = "composed" /\ last.ok

\* The part of basis index k on the listed qubits, the first listed qubit
\* the least significant.
RECURSIVE SubIndex(_, _)
SubIndex(k, qs) ==
  IF qs = <<>> THEN 0 ELSE Bit(k, Head(qs)) + 2 * SubIndex(k, Tail(qs))

\* Basis index k with the listed qubits cleared.
RECURSIVE Outside(_, _)
Outside(k, qs) ==
  IF qs = <<>> THEN k ELSE Outside(SetBit(k, Head(qs), 0), Tail(qs))

\* C6: a sub-circuit on m qubits made a gate and composed with the qubit list
\* [t0, ..., t(m-1)] is appended as one operation that acts on qubits t0, ...,
\* t(m-1) of the larger circuit, in that order, with the sub-circuit's own
\* operator and as the identity on every other qubit; the notebook's call puts
\* the 3-qubit gate on indices 1, 2, 3 and leaves 0 and 4 alone.
C6_ComposedGateActsOnListedQubits ==
  Composed =>
    LET n == NumQubits(regs2)
        after == IF last.inplace THEN quantum_circuit2 ELSE result.ops
        op == after[Len(after)]
        U == OperatorOf(NumQubits(regs), AtHalfPi(quantum_circuit))
        image == [k \in 0..(Dim(n) - 1) |->
                    ApplyOps(BasisVector(k, Dim(n)), AtHalfPi(<<op>>))]
        rest == [k \in 0..(Dim(n) - 1) |-> Outside(k, op.qubits)]
        part == [k \in 0..(Dim(n) - 1) |-> SubIndex(k, op.qubits)]
    IN  /\ Len(after) = Len(last.before) + 1
        /\ SubSeq(after, 1, Len(after) - 1) = last.before
        /\ op.qubits = [i \in 1..Len(last.args) |->
                          ExpectedIndex(regs2, last.args[i])]
        /\ \A k, l \in 0..(Dim(n) - 1) :
             image[k][l] = IF rest[k] = rest[l] THEN U[part[l]][part[k]]
                           ELSE Zero
        /\ regs2 = <<3, 2>> => op.qubits = <<1, 2, 3>>

C6_Witness ==
  /\ Composed
  /\ regs2 = <<3, 2>>
  /\ last.inplace
  /\ Len(quantum_circuit) = 5

Transformations == {"inverse", "reverse_bits", "assign_parameters", "to_gate"}

GateMethods == {"x", "y", "h", "rz", "cx", "ccx", "cz", "ccz"}

Returned == IF last.call = "to_gate" THEN gate ELSE result

\* C8 as stated: inverse, reverse_bits, assign_parameters, to_gate and compose
\* without inplace=True leave their operand as it was and return a new object,
\* and a circuit is changed only by a call given inplace=True.
C8_OnlyInplaceCallsMutate ==
  /\ (last.call \in Transformations \/ (last.call = "compose" /\ ~last.inplace))
       => last.after = last.before
  /\ last.after # last.before => (last.call = "compose" /\ last.inplace)

\* C8 amended: inverse, reverse_bits, assign_parameters, to_gate and compose
\* without inplace=True leave their operand as it was and return a new
\* object; after assign_parameters the operand still holds Theta and the
\* returned circuit does not.  A circuit is changed by compose with
\* inplace=True and by the gate methods (h, x, y, rz, cx, ccx, cz, ccz,
\* barrier), which append to the circuit they are called on.
C8_TransformationsLeaveOperand ==
  /\ last.call \in Transformations =>
       /\ last.after = last.before
       /\ last.args # <<"again">> => quantum_circuit = last.before
       /\ last.ok => Returned # None
  /\ (last.call = "compose" /\ ~last.inplace) =>
       /\ last.after = last.before
       /\ quantum_circuit2 = last.before
       /\ last.ok => (result.kind = "circuit" /\ result.ops # quantum_circuit2)
  /\ (last.call = "compose" /\ last.inplace /\ last.ok) =>
       /\ quantum_circuit2 = last.after
       /\ last.after # last.before
       /\ result = None
  /\ (last.call = "assign_parameters" /\ last.ok) =>
       /\ HasParameter(quantum_circuit)
       /\ ~HasParameter(result.ops)
  /\ last.after # last.before =>
       \/ last.call = "compose" /\ last.inplace
       \/ last.call \in GateMethods

C8_Witness ==
  /\ last.call = "assign_parameters"
  /\ last.ok
  /\ Len(quantum_circuit) = 5

\* ------------------------------------------------ claims on probabilities
\* |z|^2 for z = (a + b w + c w^2 + d w^3) / 2^k, from its real and imaginary
\* parts: a^2 + b^2 + c^2 + d^2 + sqrt(2) (ab - ad + bc + cd), over 4^k.
SquaredMagnitude(z) ==
  LET p == z[1] * z[1] + z[2] * z[2] + z[3] * z[3] + z[4] * z[4]
      q == z[1] * z[2] - z[1] * z[4] + z[2] * z[3] + z[3] * z[4]
  IN  Reduce(<<p, q, 0, -q, 2 * z[5]>>)

Half == <<1, 0, 0, 0, 1>>

\* C9: for the state a circuit gives from the all-zero input, probabilities()
\* holds at each basis index the squared magnitude of that index's
\* coefficient, the entries sum to 1, and probabilities_dict() keys each
\* non-zero entry by its label; for H(0), CX(0,1), CCX(0,1,2), Y(2) the two
\* non-zero entries are 1/2 at "011" and 1/2 at "100".
C9_ProbabilitiesAreSquaredMagnitudes ==
  LET n == NumQubits(regs)
      psi == StatevectorOf(n, quantum_circuit)
  IN  /\ out.kind = "probabilities" =>
           /\ out.psi = psi
           /\ DOMAIN out.data = 0..(Dim(n) - 1)
           /\ \A k \in 0..(Dim(n) - 1) : out.data[k] = SquaredMagnitude(psi[k])
           /\ SumUpTo(out.data, Dim(n) - 1) = One
      /\ out.kind = "probabilities_dict" =>
           /\ DOMAIN out.data = NonZeroLabels(psi, n)
           /\ \A k \in 0..(Dim(n) - 1) :
                psi[k] # Zero =>
                  out.data[LabelOf(k, n)] = SquaredMagnitude(psi[k])
           /\ quantum_circuit = <<Op("h", <<0>>), Op("cx", <<0, 1>>),
                          Op("ccx", <<0, 1, 2>>), Op("y", <<2>>)>> =>
                /\ DOMAIN out.data = {<<"0", "1", "1">>, <<"1", "0", "0">>}
                /\ out.data[<<"0", "1", "1">>] = Half
                /\ out.data[<<"1", "0", "0">>] = Half

C9_Witness ==
  /\ out.kind = "probabilities_dict"
  /\ Len(quantum_circuit) = 4
  /\ quantum_circuit[4].name = "y"
====
